---- MODULE Spec2Model ----
(***************************************************************************)
(* The ethnicity-prediction notebook (src/ethnicitypredictions.ipynb) as a *)
(* state machine: one action per code cell, run top to bottom.             *)
(*                                                                         *)
(* Text is modelled over a small alphabet: the letters a, i, n, s in both  *)
(* cases, the digit 1, the asterisk and the space.  Strings are TLA+       *)
(* strings; a character is a string of length one.                         *)
(***************************************************************************)
EXTENDS Integers, Sequences, FiniteSets, TLC

\* ------------------------------------------------------------------ bounds

\* Longest text handed to preprocess_text in the text-only specification.
MaxTextLen == 3

\* Most rows of the labelled spreadsheet.
MaxTrainRows == 4

\* Most rows of the unlabelled spreadsheet.
MaxNewRows == 2

\* Most runs of the notebook.
MaxRuns == 2

\* Clock ticks in a second, and how many ticks after each chosen instant a
\* reading can be taken.
TicksPerSecond == 2

\* test_size=0.2 of train_test_split, in percent
TestPercent == 20

MaxClockTicks == 2

\* Most rows of a labelled sheet in the specification of the cleaning cell.
MaxCleanRows == 3

\* Most rows of a labelled sheet in the specification of the baseline cell:
\* eleven rows give a held-out split of three.
MaxBaselineRows == 11

\* ------------------------------------------------------------------- text

LowerLetters == {"a", "i", "n", "s"}

UpperLetters == {"A", "I", "N", "S"}

Letters == LowerLetters \cup UpperLetters

Alphabet == Letters \cup {"1", "*", " "}

CharAt(s, i) == SubSeq(s, i, i)

\* str.lower() on one character
LowerChar(c) ==
    CASE c = "A" -> "a"
      [] c = "I" -> "i"
      [] c = "N" -> "n"
      [] c = "S" -> "s"
      [] OTHER -> c

\* str.lower()
RECURSIVE lower(_)
lower(s) ==
    IF Len(s) = 0 THEN ""
    ELSE LowerChar(CharAt(s, 1)) \o lower(SubSeq(s, 2, Len(s)))

\* str.isalpha(): at least one character, and every character a letter
isalpha(s) ==
    /\ Len(s) > 0
    /\ \A i \in 1..Len(s) : CharAt(s, i) \in Letters

\* nltk.word_tokenize over the alphabet: white space separates tokens, every
\* asterisk is a token of its own (the tokenizer pads "*" with spaces), and
\* letters and digits stay together in one token.  Scan(s, cur) is the token
\* list of s when cur is the token being read.
RECURSIVE Scan(_, _)
Scan(s, cur) ==
    LET flush == IF cur = "" THEN <<>> ELSE <<cur>>
    IN  IF Len(s) = 0 THEN flush
        ELSE LET c == CharAt(s, 1)
                 rest == SubSeq(s, 2, Len(s))
             IN  CASE c = " " -> flush \o Scan(rest, "")
                   [] c = "*" -> flush \o <<"*">> \o Scan(rest, "")
                   [] OTHER   -> Scan(rest, cur \o c)

word_tokenize(text) == Scan(text, "")

\* stopwords.words('english'), the entries that can be written in the alphabet
stop_words == {"i", "a", "an", "as", "in", "is", "s", "ain", "isn"}

EndsWith(s, suffix) ==
    /\ Len(s) >= Len(suffix)
    /\ SubSeq(s, Len(s) - Len(suffix) + 1, Len(s)) = suffix

\* PorterStemmer.stem over the alphabet: the word is lower-cased; a word of
\* one or two letters is returned as it is; of the suffix rules only step 1a
\* can match a word written with a, i, n, s: "ss" stays, another final "s"
\* is dropped.
stem(word) ==
    LET w == lower(word)
    IN  IF Len(w) <= 2 THEN w
        ELSE IF EndsWith(w, "ss") THEN w
        ELSE IF EndsWith(w, "s") THEN SubSeq(w, 1, Len(w) - 1)
        ELSE w

\* ' '.join(words)
RECURSIVE join(_)
join(words) ==
    IF Len(words) = 0 THEN ""
    ELSE IF Len(words) = 1 THEN words[1]
    ELSE words[1] \o " " \o join(Tail(words))

\* the condition with the word looked up in the stopword list as it is written
KeepWordAsWritten(word) == isalpha(word) /\ word \notin stop_words

\* the condition of the list comprehension in preprocess_text
KeepWord(word) == isalpha(word) /\ lower(word) \notin stop_words

RECURSIVE StemKept(_)
StemKept(words) ==
    IF Len(words) = 0 THEN <<>>
    ELSE (IF KeepWord(words[1]) THEN <<stem(words[1])>> ELSE <<>>)
         \o StemKept(Tail(words))

preprocess_text(text) == join(StemKept(word_tokenize(text)))

\* every text of at most n characters over the alphabet
RECURSIVE Texts(_)
Texts(n) ==
    IF n = 0 THEN {""}
    ELSE LET shorter == Texts(n - 1)
         IN  shorter \cup {t \o c : t \in shorter, c \in Alphabet}

\* str.split(' '): the pieces of s between single spaces
RECURSIVE SplitFrom(_, _)
SplitFrom(s, cur) ==
    IF Len(s) = 0 THEN <<cur>>
    ELSE IF CharAt(s, 1) = " "
         THEN <<cur>> \o SplitFrom(SubSeq(s, 2, Len(s)), "")
         ELSE SplitFrom(SubSeq(s, 2, Len(s)), cur \o CharAt(s, 1))

split(s) == SplitFrom(s, "")

\* ------------------------------------------------------- spreadsheet cells

\* A spreadsheet cell is its Python type and the text str() gives for it.
Str(v) == [t |-> "str", v |-> v]

NaN == [t |-> "float", v |-> "nan"]

False == [t |-> "bool", v |-> "False"]

Integer(v) == [t |-> "int", v |-> v]

Float(v) == [t |-> "float", v |-> v]

\* Series.astype(str) on one cell
astype_str(cell) == cell.v

\* Python's `cell == False`: the boolean False and the numbers equal to it
EqualsFalse(cell) ==
    \/ cell.t = "bool" /\ cell.v = "False"
    \/ cell.t = "int" /\ cell.v = "0"
    \/ cell.t = "float" /\ cell.v = "0.0"

Range(s) == {s[i] : i \in 1..Len(s)}

\* the members of a set of numbers in increasing order
RECURSIVE Ascending(_)
Ascending(S) ==
    IF S = {} THEN <<>>
    ELSE LET m == CHOOSE x \in S : \A y \in S : x <= y
         IN  <<m>> \o Ascending(S \ {m})

\* how often v occurs in seq s
Count(s, v) == Cardinality({i \in 1..Len(s) : s[i] = v})

\* the distinct members of seq s in order of first appearance: Series.unique()
RECURSIVE unique(_)
unique(s) ==
    IF Len(s) = 0 THEN <<>>
    ELSE LET front == unique(SubSeq(s, 1, Len(s) - 1))
             last == s[Len(s)]
         IN  IF last \in Range(front) THEN front ELSE Append(front, last)

\* --------------------------------------------------------------- labels

\* The class labels of the README, and one label outside them (a lower-case
\* spelling), listed in the order Python sorts strings.
LabelOrder == <<"Chinese", "Indian", "Malay", "Others", "malay">>

Classes == {"Malay", "Indian", "Chinese", "Others"}

\* sorted(S) for a set of labels
sorted_labels(S) == SelectSeq(LabelOrder, LAMBDA l : l \in S)

Max(a, b) == IF a >= b THEN a ELSE b

Min(a, b) == IF a <= b THEN a ELSE b

\* the width of a numpy unicode array holding the strings of seq s
RECURSIVE itemsize(_)
itemsize(s) == IF Len(s) = 0 THEN 0 ELSE Max(Len(s[1]), itemsize(Tail(s)))

\* ------------------------------------------------------ CountVectorizer

\* The default analyzer: lower-cased runs of two or more word characters.
\* A processed name holds letters and single spaces only.
analyze(doc) == SelectSeq(split(lower(doc)), LAMBDA w : Len(w) >= 2)

\* CountVectorizer.fit: the vocabulary of the documents
fit_vocabulary(docs) ==
    UNION {Range(analyze(docs[i])) : i \in 1..Len(docs)}

\* CountVectorizer.transform: one row of token counts per document
transform(vocabulary, docs) ==
    [i \in 1..Len(docs) |->
        [tok \in vocabulary |-> Count(analyze(docs[i]), tok)]]

\* ---------------------------------------------------------- classifiers

NoModel == [kind |-> "unset"]

RECURSIVE SumOver(_, _)
SumOver(S, f) ==
    IF S = {} THEN 0
    ELSE LET x == CHOOSE y \in S : TRUE
         IN  f[x] + SumOver(S \ {x}, f)

RECURSIVE Power(_, _)
Power(b, e) == IF e = 0 THEN 1 ELSE b * Power(b, e - 1)

RECURSIVE ProductOver(_, _)
ProductOver(S, f) ==
    IF S = {} THEN 1
    ELSE LET x == CHOOSE y \in S : TRUE
         IN  f[x] * ProductOver(S \ {x}, f)

\* MultinomialNB().fit(X, y): the sorted classes, the rows of each class and
\* the token counts of each class
fit_nb(X, y) ==
    LET cls == sorted_labels(Range(y))
        vocab == IF Len(X) = 0 THEN {} ELSE DOMAIN X[1]
    IN  [kind |-> "MultinomialNB",
         classes_ |-> cls,
         class_count_ |-> [k \in 1..Len(cls) |-> Count(y, cls[k])],
         feature_count_ |->
            [k \in 1..Len(cls) |->
                [tok \in vocab |->
                    SumOver({i \in 1..Len(X) : y[i] = cls[k]},
                            [i \in 1..Len(X) |-> X[i][tok]])]]]

\* RandomForestClassifier(random_state=42).fit(X, y) and
\* SVC(random_state=42).fit(X, y): what of the fitted estimator the notebook
\* relies on, its sorted classes and the shape it was fitted on
fit_opaque(kind, X, y) ==
    [kind |-> kind,
     classes_ |-> sorted_labels(Range(y)),
     n_samples |-> Len(X),
     n_features_in_ |-> IF Len(X) = 0 THEN 0 ELSE Cardinality(DOMAIN X[1])]

\* The joint likelihood of class k for row x as a fraction num/den, with
\* Laplace smoothing alpha = 1: prior count times the smoothed token
\* likelihoods.
nb_num(model, k, x) ==
    model.class_count_[k]
    * ProductOver(DOMAIN x,
         [tok \in DOMAIN x |-> Power(model.feature_count_[k][tok] + 1, x[tok])])

nb_den(model, k, x) ==
    Power(SumOver(DOMAIN x, model.feature_count_[k]) + Cardinality(DOMAIN x),
          SumOver(DOMAIN x, x))

\* Classes j and k have the same counts wherever row x looks, so their joint
\* likelihoods are the same floating-point number.
same_counts(model, j, k, x) ==
    /\ model.class_count_[j] = model.class_count_[k]
    /\ SumOver(DOMAIN x, model.feature_count_[j])
          = SumOver(DOMAIN x, model.feature_count_[k])
    /\ \A tok \in DOMAIN x :
          x[tok] > 0 => model.feature_count_[j][tok] = model.feature_count_[k][tok]

\* The classes estimator.predict can return for one row.  Naive Bayes returns
\* classes_[argmax] of the joint likelihood: a class of the highest
\* likelihood, the first of those whose likelihoods are the same number
\* (between likelihoods equal only in exact arithmetic rounding decides).  A
\* forest or an SVM returns one of its classes.
outcomes(model, x) ==
    IF model.kind = "MultinomialNB"
    THEN LET best == {k \in 1..Len(model.classes_) :
                        \A j \in 1..Len(model.classes_) :
                            nb_num(model, k, x) * nb_den(model, j, x)
                                >= nb_num(model, j, x) * nb_den(model, k, x)}
         IN  {model.classes_[k] : k \in
                {k \in best :
                    \A j \in best : j < k => ~same_counts(model, j, k, x)}}
    ELSE Range(model.classes_)

\* estimator.predict(X): the arrays it can return, one class per row, equal
\* rows getting equal classes
predict(model, X) ==
    {p \in [1..Len(X) -> Range(model.classes_)] :
        /\ \A i \in 1..Len(X) : p[i] \in outcomes(model, X[i])
        /\ \A i, j \in 1..Len(X) : X[i] = X[j] => p[i] = p[j]}

\* array[mask] = value on a numpy array: a unicode array (what Naive Bayes
\* returns) cuts the value to its width, an object array (forest, SVM) keeps it
set_masked(array, mask, value, width) ==
    [i \in 1..Len(array) |->
        IF mask[i]
        THEN (IF width = 0 THEN value ELSE SubSeq(value, 1, Min(width, Len(value))))
        ELSE array[i]]

\* the width of the array estimator.predict returns; 0 for an object array
result_width(model) ==
    IF model.kind = "MultinomialNB" THEN itemsize(model.classes_) ELSE 0

\* -------------------------------------------------------------- metrics

NoScore == [correct |-> 0, total |-> 0]

\* accuracy_score(y_true, y_pred) as matches and rows scored
accuracy_score(y_true, y_pred) ==
    [correct |-> Cardinality({i \in 1..Len(y_true) : y_true[i] = y_pred[i]}),
     total |-> Len(y_true)]

\* classification_report(y_true, y_pred, output_dict=True): its classes and
\* the support of each, and the accuracy entry
classification_report(y_true, y_pred) ==
    LET labels == sorted_labels(Range(y_true) \cup Range(y_pred))
    IN  [labels |-> labels,
         support |-> [k \in 1..Len(labels) |-> Count(y_true, labels[k])],
         accuracy |-> accuracy_score(y_true, y_pred)]

\* confusion_matrix(y_true, y_pred, labels=labels)
confusion_matrix(y_true, y_pred, labels) ==
    [a \in 1..Len(labels) |-> [b \in 1..Len(labels) |->
        Cardinality({i \in 1..Len(y_true) :
                        y_true[i] = labels[a] /\ y_pred[i] = labels[b]})]]

\* ------------------------------------------------------------- the clock

\* A clock reading is a number of ticks since midnight before the first day
\* of the month; TicksPerSecond ticks make a second.
Digit(n) == SubSeq("0123456789", n + 1, n + 1)

\* a number below 100 as two digits
Pad2(n) == Digit(n \div 10) \o Digit(n % 10)

HourOf(t) == ((t \div TicksPerSecond) \div 3600) % 24

\* the format with a 12-hour hour and no AM/PM
strftime_12h(t) ==
    LET sec == t \div TicksPerSecond
        h12 == IF HourOf(t) % 12 = 0 THEN 12 ELSE HourOf(t) % 12
    IN  Pad2(1 + sec \div 86400) \o "11" \o "2023" \o "_"
        \o Pad2(h12) \o Pad2((sec \div 60) % 60) \o Pad2(sec % 60)

\* datetime.strftime("%d%m%Y_%H%M%S%p") for a reading in November 2023
strftime(t) ==
    LET sec == t \div TicksPerSecond
    IN  Pad2(1 + sec \div 86400) \o "11" \o "2023" \o "_"
        \o Pad2(HourOf(t)) \o Pad2((sec \div 60) % 60) \o Pad2(sec % 60)
        \o (IF HourOf(t) < 12 THEN "AM" ELSE "PM")

\* the name of the exported file
export_path(stamp) ==
    "Data/Predictions/ecomm_demo_2023Q3_predicted_ethnicities_" \o stamp \o ".xlsx"

\* ---------------------------------------------------------------- cells

\* The code cells of the notebook, top to bottom.
Cells ==
    <<"imports", "load", "clean", "preprocess", "split", "baseline",
      "vectorize", "train_nb", "table_nb", "train_rf", "importances",
      "plot_importances", "table_rf", "train_svm", "table_svm",
      "accuracy_table", "reports", "confusion", "roc_curves",
      "multiclass_roc", "predict_new", "special_cases", "add_predictions",
      "timestamp", "export">>

\* cells that only print or plot what earlier cells computed
DisplayCells ==
    {"imports", "table_nb", "importances", "plot_importances", "table_rf",
     "table_svm", "accuracy_table", "roc_curves"}

CellIndex(c) == CHOOSE i \in 1..Len(Cells) : Cells[i] = c

\* the order of a run that leaves the special-case cell out
NextCellSkipping(c) ==
    IF c = "predict_new" THEN "add_predictions"
    ELSE IF CellIndex(c) = Len(Cells) THEN "done"
    ELSE Cells[CellIndex(c) + 1]

\* the cell that runs after cell c
NextCell(c) ==
    IF CellIndex(c) = Len(Cells) THEN "done" ELSE Cells[CellIndex(c) + 1]

VARIABLES
    pc,                  \* the cell to run next, "done" or "error"
    run,                 \* which run of the notebook this is
    clock,               \* what datetime.now() returns in this run
    clock_log,           \* the readings taken so far, one per run
    files,               \* the files in Data/Predictions, by name
    train_xlsx,          \* data\jan23-jun23_ethnic.xlsx
    new_xlsx,            \* data/HJecommQ3blankethnicity.xlsx
    data,
    train_index, test_index,   \* the rows of data in X_train and X_test
    X_train, X_test, y_train, y_test,
    baseline_accuracy,
    vectorizer, X_train_vectorized, X_test_vectorized,
    classifier, predictions, accuracy,
    rf_classifier, rf_predictions, rf_accuracy,
    svm_classifier, svm_predictions, svm_accuracy,
    reports,             \* report_nb, report_rf, report_svm
    confusion_plots,     \* the three confusion matrices plotted
    roc_plots,           \* the curves plot_multiclass_roc has shown
    new_data, new_data_vectorized,
    new_predictions_nb, new_predictions_rf, new_predictions_svm,
    current_datetime,
    text, processed      \* the text-only specification: input and result

inputs == <<train_xlsx, new_xlsx>>

outside == <<run, clock, clock_log, files>>

split_vars == <<train_index, test_index, X_train, X_test, y_train, y_test>>

vectorizer_vars == <<vectorizer, X_train_vectorized, X_test_vectorized>>

nb_vars == <<classifier, predictions, accuracy>>

rf_vars == <<rf_classifier, rf_predictions, rf_accuracy>>

svm_vars == <<svm_classifier, svm_predictions, svm_accuracy>>

plot_vars == <<reports, confusion_plots, roc_plots>>

new_vars ==
    <<new_data, new_data_vectorized, new_predictions_nb, new_predictions_rf,
      new_predictions_svm>>

text_vars == <<text, processed>>

vars ==
    <<pc, inputs, outside, data, split_vars, baseline_accuracy,
      vectorizer_vars, nb_vars, rf_vars, svm_vars, plot_vars, new_vars,
      current_datetime, text_vars>>

\* ------------------------------------------------------------ the inputs

Row(name, ethnicity) == [ShippingName |-> Str(name), Ethnicity |-> ethnicity]

\* rows a labelled spreadsheet is made of: the classes of the README and the
\* False the cleaning cell looks for
TrainRows ==
    {Row("Ani", Str("Malay")), Row("Sia", Str("Chinese")),
     Row("Nisa", Str("Indian")), Row("Ani", False)}

\* a row whose label is none of the four classes
OtherLabelRows == {Row("Ani", Str("malay"))}

\* names an unlabelled spreadsheet is made of: a name, a missing cell, a
\* name masked with asterisks and a name wrapped in asterisks
NewCells == {Str("Ani"), NaN, Str("***"), Str("*Ani*")}

\* every sheet of at most n rows drawn from Rows
Sheets(Rows, n) == UNION {[1..k -> Rows] : k \in 0..n}

SpecimenTrain ==
    <<Row("Ani", Str("Malay")), Row("Sia", Str("Chinese")),
      Row("Nisa", Str("Indian")), Row("Ina", Str("Malay"))>>

SpecimenNew == <<[shipping_firstname |-> NaN]>>

NewSheets(n) ==
    {[i \in 1..Len(cells) |-> [shipping_firstname |-> cells[i]]] :
        cells \in UNION {[1..k -> NewCells] : k \in 0..n}}

\* instants around which the clock is read: 00:59:59 and 12:59:59 of the first
\* day
ClockSeconds == {3599, 46799}

ClockReadings ==
    {TicksPerSecond * sec + k : sec \in ClockSeconds, k \in 0..MaxClockTicks}

\* --------------------------------------------------------------- Init

\* the state of a kernel in which no cell has run
Fresh ==
    /\ pc = Cells[1]
    /\ data = <<>>
    /\ train_index = <<>> /\ test_index = <<>>
    /\ X_train = <<>> /\ X_test = <<>> /\ y_train = <<>> /\ y_test = <<>>
    /\ baseline_accuracy = NoScore
    /\ vectorizer = NoModel
    /\ X_train_vectorized = <<>> /\ X_test_vectorized = <<>>
    /\ classifier = NoModel /\ predictions = <<>> /\ accuracy = NoScore
    /\ rf_classifier = NoModel /\ rf_predictions = <<>> /\ rf_accuracy = NoScore
    /\ svm_classifier = NoModel /\ svm_predictions = <<>> /\ svm_accuracy = NoScore
    /\ reports = <<>> /\ confusion_plots = <<>> /\ roc_plots = <<>>
    /\ new_data = <<>> /\ new_data_vectorized = <<>>
    /\ new_predictions_nb = <<>> /\ new_predictions_rf = <<>>
    /\ new_predictions_svm = <<>>
    /\ current_datetime = ""

FirstRun ==
    /\ run = 1
    /\ clock_log = <<>>
    /\ files = <<>>
    /\ text = "" /\ processed = ""

\* One run: every labelled sheet of at most MaxTrainRows rows with one
\* unlabelled sheet, and one labelled sheet with every unlabelled sheet of at
\* most MaxNewRows rows.
Init ==
    /\ Fresh /\ FirstRun
    /\ clock = TicksPerSecond * 3599
    /\ \/ train_xlsx \in Sheets(TrainRows, MaxTrainRows) /\ new_xlsx = SpecimenNew
       \/ train_xlsx = SpecimenTrain /\ new_xlsx \in NewSheets(MaxNewRows)

\* One run on labelled sheets that also hold a label outside the classes.
InitAnyLabel ==
    /\ Fresh /\ FirstRun
    /\ clock = TicksPerSecond * 3599
    /\ train_xlsx \in Sheets(TrainRows \cup OtherLabelRows, MaxTrainRows)
    /\ new_xlsx = <<[shipping_firstname |-> Str("Ani")]>>

\* Runs one after another on the same two sheets.
InitRuns ==
    /\ Fresh /\ FirstRun
    /\ clock \in ClockReadings
    /\ train_xlsx = SpecimenTrain
    /\ new_xlsx = SpecimenNew

\* cells the two columns of a labelled sheet can hold: names as text or as
\* numbers; labels as a class, the boolean False, the numbers 0 and 0.0 and a
\* missing value
CleanNames == {Str("Ani"), Integer("1")}

CleanLabels == {Str("Malay"), False, Integer("0"), Float("0.0"), NaN}

CleanRows ==
    {[ShippingName |-> n, Ethnicity |-> e] : n \in CleanNames, e \in CleanLabels}

\* The cells up to the cleaning cell, on every sheet of at most MaxCleanRows
\* such rows.
InitClean ==
    /\ Fresh /\ FirstRun
    /\ clock = TicksPerSecond * 3599
    /\ train_xlsx \in Sheets(CleanRows, MaxCleanRows)
    /\ new_xlsx = SpecimenNew

\* A labelled sheet of n rows: a rows labelled Malay, then b rows without a
\* label, then rows labelled Chinese.  The split may hold out any rows, so
\* these sheets give every mix of the three in the held-out rows.
BaselineSheet(n, a, b) ==
    [i \in 1..n |->
        IF i <= a THEN Row("Ani", Str("Malay"))
        ELSE IF i <= a + b THEN Row("Ani", NaN)
        ELSE Row("Sia", Str("Chinese"))]

\* The cells up to the baseline cell, on those sheets of at most
\* MaxBaselineRows rows.
InitBaseline ==
    /\ Fresh /\ FirstRun
    /\ clock = TicksPerSecond * 3599
    /\ \E n \in 1..MaxBaselineRows : \E a \in 0..n : \E b \in 0..(n - a) :
          train_xlsx = BaselineSheet(n, a, b)
    /\ new_xlsx = SpecimenNew

\* preprocess_text alone, on every text of at most MaxTextLen characters
InitText ==
    /\ pc = "text"
    /\ text \in Texts(MaxTextLen) /\ processed = ""
    /\ run = 1 /\ clock = 0 /\ clock_log = <<>> /\ files = <<>>
    /\ train_xlsx = <<>> /\ new_xlsx = <<>>
    /\ data = <<>>
    /\ train_index = <<>> /\ test_index = <<>>
    /\ X_train = <<>> /\ X_test = <<>> /\ y_train = <<>> /\ y_test = <<>>
    /\ baseline_accuracy = NoScore
    /\ vectorizer = NoModel
    /\ X_train_vectorized = <<>> /\ X_test_vectorized = <<>>
    /\ classifier = NoModel /\ predictions = <<>> /\ accuracy = NoScore
    /\ rf_classifier = NoModel /\ rf_predictions = <<>> /\ rf_accuracy = NoScore
    /\ svm_classifier = NoModel /\ svm_predictions = <<>> /\ svm_accuracy = NoScore
    /\ reports = <<>> /\ confusion_plots = <<>> /\ roc_plots = <<>>
    /\ new_data = <<>> /\ new_data_vectorized = <<>>
    /\ new_predictions_nb = <<>> /\ new_predictions_rf = <<>>
    /\ new_predictions_svm = <<>>
    /\ current_datetime = ""

\* -------------------------------------------------------------- the cells

\* the text an estimator or a metric sees of a column of label cells
target(y) == [i \in 1..Len(y) |-> y[i].v]

\* data['Ethnicity'].unique()
ethnicity_unique == unique([i \in 1..Len(data) |-> data[i].Ethnicity.v])

\* a cell that only prints or plots
Display ==
    /\ pc \in DisplayCells
    /\ pc' = NextCell(pc)
    /\ UNCHANGED <<inputs, outside, data, split_vars, baseline_accuracy,
                   vectorizer_vars, nb_vars, rf_vars, svm_vars, plot_vars,
                   new_vars, current_datetime, text_vars>>

\* data = pd.read_excel(...)
Load ==
    /\ pc = "load"
    /\ data' = train_xlsx
    /\ pc' = NextCell(pc)
    /\ UNCHANGED <<inputs, outside, split_vars, baseline_accuracy,
                   vectorizer_vars, nb_vars, rf_vars, svm_vars, plot_vars,
                   new_vars, current_datetime, text_vars>>

\* ShippingName to str, then drop the rows whose Ethnicity equals False
Clean ==
    /\ pc = "clean"
    /\ data' = SelectSeq(
          [i \in 1..Len(data) |->
              [ShippingName |-> astype_str(data[i].ShippingName),
               Ethnicity |-> data[i].Ethnicity]],
          LAMBDA r : ~EqualsFalse(r.Ethnicity))
    /\ pc' = NextCell(pc)
    /\ UNCHANGED <<inputs, outside, split_vars, baseline_accuracy,
                   vectorizer_vars, nb_vars, rf_vars, svm_vars, plot_vars,
                   new_vars, current_datetime, text_vars>>

\* data['processed_name'] = data['ShippingName'].apply(preprocess_text)
Preprocess ==
    /\ pc = "preprocess"
    /\ data' = [i \in 1..Len(data) |->
                  [ShippingName |-> data[i].ShippingName,
                   Ethnicity |-> data[i].Ethnicity,
                   processed_name |-> preprocess_text(data[i].ShippingName)]]
    /\ pc' = NextCell(pc)
    /\ UNCHANGED <<inputs, outside, split_vars, baseline_accuracy,
                   vectorizer_vars, nb_vars, rf_vars, svm_vars, plot_vars,
                   new_vars, current_datetime, text_vars>>

\* the number of test rows train_test_split takes of n rows: 20% rounded up
n_test(n) == (TestPercent * n + 99) \div 100

\* train_test_split(..., test_size=0.2, random_state=42): the seeded shuffle
\* picks the test rows; it raises when no training row would be left.  Rows
\* are kept in the order of data.
Split ==
    /\ pc = "split"
    /\ LET n == Len(data)
       IN  IF n - n_test(n) <= 0
           THEN /\ pc' = "error"
                /\ UNCHANGED split_vars
           ELSE \E T \in SUBSET (1..n) :
                   /\ Cardinality(T) = n_test(n)
                   /\ test_index' = Ascending(T)
                   /\ train_index' = Ascending((1..n) \ T)
                   /\ X_test' = [k \in 1..Len(test_index') |->
                                    data[test_index'[k]].processed_name]
                   /\ y_test' = [k \in 1..Len(test_index') |->
                                    data[test_index'[k]].Ethnicity]
                   /\ X_train' = [k \in 1..Len(train_index') |->
                                    data[train_index'[k]].processed_name]
                   /\ y_train' = [k \in 1..Len(train_index') |->
                                    data[train_index'[k]].Ethnicity]
                   /\ pc' = NextCell(pc)
    /\ UNCHANGED <<inputs, outside, data, baseline_accuracy, vectorizer_vars,
                   nb_vars, rf_vars, svm_vars, plot_vars, new_vars,
                   current_datetime, text_vars>>

\* Series.value_counts(): the number of rows of each value, missing values
\* left out (dropna=True is the default)
value_counts(y) == [l \in Range(y) \ {NaN} |-> Count(y, l)]

\* y_test.value_counts().max() / len(y_test), as a fraction; max() of no
\* counts is NaN, and so is the quotient
Baseline ==
    /\ pc = "baseline"
    /\ LET counts == value_counts(y_test)
       IN  baseline_accuracy' =
              IF DOMAIN counts = {} THEN NaN
              ELSE [correct |-> CHOOSE m \in {counts[l] : l \in DOMAIN counts} :
                                   \A l \in DOMAIN counts : counts[l] <= m,
                    total |-> Len(y_test)]
    /\ pc' = NextCell(pc)
    /\ UNCHANGED <<inputs, outside, data, split_vars, vectorizer_vars,
                   nb_vars, rf_vars, svm_vars, plot_vars, new_vars,
                   current_datetime, text_vars>>

\* vectorizer.fit_transform(X_train), vectorizer.transform(X_test);
\* fit_transform raises on an empty vocabulary
Vectorize ==
    /\ pc = "vectorize"
    /\ LET vocabulary == fit_vocabulary(X_train)
       IN  IF vocabulary = {}
           THEN /\ vectorizer' = [kind |-> "CountVectorizer", vocabulary_ |-> {}]
                /\ pc' = "error"
                /\ UNCHANGED <<X_train_vectorized, X_test_vectorized>>
           ELSE /\ vectorizer' =
                      [kind |-> "CountVectorizer", vocabulary_ |-> vocabulary]
                /\ X_train_vectorized' = transform(vocabulary, X_train)
                /\ X_test_vectorized' = transform(vocabulary, X_test)
                /\ pc' = NextCell(pc)
    /\ UNCHANGED <<inputs, outside, data, split_vars, baseline_accuracy,
                   nb_vars, rf_vars, svm_vars, plot_vars, new_vars,
                   current_datetime, text_vars>>

\* scoring on the rows the model was fitted on
evaluation_set_resubstituted ==
    [X_fit |-> X_train_vectorized, y_fit |-> target(y_train),
     X_eval |-> X_train_vectorized, y_eval |-> target(y_train)]

\* what a training cell fits on and what it scores: the training matrix and
\* labels, the test matrix and labels
evaluation_set ==
    [X_fit |-> X_train_vectorized, y_fit |-> target(y_train),
     X_eval |-> X_test_vectorized, y_eval |-> target(y_test)]

\* MultinomialNB: fit, predict the test set, accuracy
TrainNB ==
    /\ pc = "train_nb"
    /\ classifier' = fit_nb(evaluation_set.X_fit, evaluation_set.y_fit)
    /\ \E p \in predict(classifier', evaluation_set.X_eval) :
          /\ predictions' = p
          /\ accuracy' = accuracy_score(evaluation_set.y_eval, p)
    /\ pc' = NextCell(pc)
    /\ UNCHANGED <<inputs, outside, data, split_vars, baseline_accuracy,
                   vectorizer_vars, rf_vars, svm_vars, plot_vars, new_vars,
                   current_datetime, text_vars>>

\* RandomForestClassifier: fit, predict the test set, accuracy
TrainRF ==
    /\ pc = "train_rf"
    /\ rf_classifier' = fit_opaque("RandomForestClassifier",
                                   evaluation_set.X_fit, evaluation_set.y_fit)
    /\ \E p \in predict(rf_classifier', evaluation_set.X_eval) :
          /\ rf_predictions' = p
          /\ rf_accuracy' = accuracy_score(evaluation_set.y_eval, p)
    /\ pc' = NextCell(pc)
    /\ UNCHANGED <<inputs, outside, data, split_vars, baseline_accuracy,
                   vectorizer_vars, nb_vars, svm_vars, plot_vars, new_vars,
                   current_datetime, text_vars>>

\* SVC: fit, predict the test set, accuracy; fit raises on a single class
TrainSVM ==
    /\ pc = "train_svm"
    /\ IF Cardinality(Range(evaluation_set.y_fit)) < 2
       THEN /\ svm_classifier' = fit_opaque("SVC", <<>>, <<>>)
            /\ pc' = "error"
            /\ UNCHANGED <<svm_predictions, svm_accuracy>>
       ELSE /\ svm_classifier' =
                  fit_opaque("SVC", evaluation_set.X_fit, evaluation_set.y_fit)
            /\ \E p \in predict(svm_classifier', evaluation_set.X_eval) :
                  /\ svm_predictions' = p
                  /\ svm_accuracy' = accuracy_score(evaluation_set.y_eval, p)
            /\ pc' = NextCell(pc)
    /\ UNCHANGED <<inputs, outside, data, split_vars, baseline_accuracy,
                   vectorizer_vars, nb_vars, rf_vars, plot_vars, new_vars,
                   current_datetime, text_vars>>

\* report_nb, report_rf, report_svm
Reports ==
    /\ pc = "reports"
    /\ reports' =
          [nb |-> classification_report(target(y_test), predictions),
           rf |-> classification_report(target(y_test), rf_predictions),
           svm |-> classification_report(target(y_test), svm_predictions)]
    /\ pc' = NextCell(pc)
    /\ UNCHANGED <<inputs, outside, data, split_vars, baseline_accuracy,
                   vectorizer_vars, nb_vars, rf_vars, svm_vars,
                   confusion_plots, roc_plots, new_vars, current_datetime,
                   text_vars>>

\* plot_confusion_matrix for the three models
Confusion ==
    /\ pc = "confusion"
    /\ confusion_plots' =
          [labels |-> ethnicity_unique,
           nb |-> confusion_matrix(target(y_test), predictions, ethnicity_unique),
           rf |-> confusion_matrix(target(y_test), rf_predictions, ethnicity_unique),
           svm |-> confusion_matrix(target(y_test), svm_predictions, ethnicity_unique)]
    /\ pc' = NextCell(pc)
    /\ UNCHANGED <<inputs, outside, data, split_vars, baseline_accuracy,
                   vectorizer_vars, nb_vars, rf_vars, svm_vars, reports,
                   roc_plots, new_vars, current_datetime, text_vars>>

\* One call of plot_multiclass_roc for an estimator of the given kind.
\* y_test_bin = label_binarize(y_test, classes=uniq) has one column per entry
\* of uniq, or, for two entries, a single column marking the second.  y_score
\* has one column per fitted class, in the order of cls; for an SVC fitted on
\* two classes decision_function returns a vector, which has no columns to
\* index.  Column i of one is paired with column i of the other and labelled
\* uniq[i]; indexing past the columns of y_score raises.
roc_call(name, kind, uniq, cls) ==
    LET bin_cols == IF Len(uniq) = 2 THEN 1 ELSE Len(uniq)
        score_cols == IF kind = "SVC" /\ Len(cls) = 2 THEN 0 ELSE Len(cls)
    IN  [raised |-> bin_cols > score_cols,
         curves |->
            [i \in 1..bin_cols |->
                [model |-> name,
                 label |-> uniq[i],
                 truth |-> IF Len(uniq) = 2 THEN uniq[2] ELSE uniq[i],
                 score |-> IF i <= Len(cls) THEN cls[i] ELSE "IndexError"]]]

\* the global had the function declared `classifier` global
classifier_after_roc_rebound ==
    fit_opaque("OneVsRestClassifier", X_train_vectorized, target(y_train))

\* The global `classifier` when plot_multiclass_roc returns: the function
\* binds its One-vs-Rest model to a local of that name, so the global keeps
\* the fitted Naive Bayes model.
classifier_after_roc == classifier

\* plot_multiclass_roc for Naive Bayes, the forest and the SVM in turn; the
\* figures of the calls that returned are shown
MulticlassRoc ==
    /\ pc = "multiclass_roc"
    /\ LET cls == sorted_labels(Range(target(y_train)))
           nb == roc_call("Naive Bayes", "MultinomialNB", ethnicity_unique, cls)
           rf == roc_call("Random Forest", "RandomForestClassifier",
                          ethnicity_unique, cls)
           svm == roc_call("SVM", "SVC", ethnicity_unique, cls)
       IN  /\ roc_plots' =
                 IF nb.raised THEN <<>>
                 ELSE IF rf.raised THEN nb.curves
                 ELSE IF svm.raised THEN nb.curves \o rf.curves
                 ELSE nb.curves \o rf.curves \o svm.curves
           /\ pc' = IF nb.raised \/ rf.raised \/ svm.raised
                    THEN "error" ELSE NextCell(pc)
    /\ classifier' = classifier_after_roc
    /\ UNCHANGED <<inputs, outside, data, split_vars, baseline_accuracy,
                   vectorizer_vars, predictions, accuracy, rf_vars, svm_vars,
                   reports, confusion_plots, new_vars, current_datetime,
                   text_vars>>

\* read the unlabelled sheet, preprocess and vectorize it, predict with the
\* three models; predict raises on a sheet without rows
PredictNew ==
    /\ pc = "predict_new"
    /\ new_data' =
          [i \in 1..Len(new_xlsx) |->
              [shipping_firstname |-> astype_str(new_xlsx[i].shipping_firstname),
               processed_name |->
                  preprocess_text(astype_str(new_xlsx[i].shipping_firstname))]]
    /\ new_data_vectorized' =
          transform(vectorizer.vocabulary_,
                    [i \in 1..Len(new_data') |-> new_data'[i].processed_name])
    /\ IF Len(new_xlsx) = 0
       THEN /\ pc' = "error"
            /\ UNCHANGED <<new_predictions_nb, new_predictions_rf,
                           new_predictions_svm>>
       ELSE /\ new_predictions_nb' \in predict(classifier, new_data_vectorized')
            /\ new_predictions_rf' \in predict(rf_classifier, new_data_vectorized')
            /\ new_predictions_svm' \in predict(svm_classifier, new_data_vectorized')
            /\ pc' = NextCell(pc)
    /\ UNCHANGED <<inputs, outside, data, split_vars, baseline_accuracy,
                   vectorizer_vars, nb_vars, rf_vars, svm_vars, plot_vars,
                   current_datetime, text_vars>>

\* the list without the empty processed name
exceptional_cases_nan_only == <<"nan">>

\* exceptional_cases = ["nan", ""]
exceptional_cases == <<"nan", "">>

\* the loop over exceptional_cases for one prediction array:
\* array[new_data['processed_name'] == case] = 'Others'
RECURSIVE substitute(_, _, _)
substitute(array, cases, width) ==
    IF Len(cases) = 0 THEN array
    ELSE substitute(
            set_masked(array,
                       [i \in 1..Len(new_data) |->
                           new_data[i].processed_name = cases[1]],
                       "Others", width),
            Tail(cases), width)

SpecialCases ==
    /\ pc = "special_cases"
    /\ new_predictions_nb' =
          substitute(new_predictions_nb, exceptional_cases,
                     result_width(classifier))
    /\ new_predictions_rf' =
          substitute(new_predictions_rf, exceptional_cases,
                     result_width(rf_classifier))
    /\ new_predictions_svm' =
          substitute(new_predictions_svm, exceptional_cases,
                     result_width(svm_classifier))
    /\ pc' = NextCell(pc)
    /\ UNCHANGED <<inputs, outside, data, split_vars, baseline_accuracy,
                   vectorizer_vars, nb_vars, rf_vars, svm_vars, plot_vars,
                   new_data, new_data_vectorized, current_datetime, text_vars>>

\* the assignment with the forest's column taken from the Naive Bayes array
assigned_crossed ==
    [NB |-> new_predictions_nb, RF |-> new_predictions_nb,
     SVM |-> new_predictions_svm]

\* the array each Predicted_Ethnicity_* column is assigned
assigned ==
    [NB |-> new_predictions_nb, RF |-> new_predictions_rf,
     SVM |-> new_predictions_svm]

AddPredictions ==
    /\ pc = "add_predictions"
    /\ new_data' =
          [i \in 1..Len(new_data) |->
              [shipping_firstname |-> new_data[i].shipping_firstname,
               processed_name |-> new_data[i].processed_name,
               Predicted_Ethnicity_NB |-> assigned.NB[i],
               Predicted_Ethnicity_RF |-> assigned.RF[i],
               Predicted_Ethnicity_SVM |-> assigned.SVM[i]]]
    /\ pc' = NextCell(pc)
    /\ UNCHANGED <<inputs, outside, data, split_vars, baseline_accuracy,
                   vectorizer_vars, nb_vars, rf_vars, svm_vars, plot_vars,
                   new_data_vectorized, new_predictions_nb,
                   new_predictions_rf, new_predictions_svm, current_datetime,
                   text_vars>>

\* current_datetime = datetime.now().strftime(...)
Timestamp ==
    /\ pc = "timestamp"
    /\ current_datetime' = strftime(clock)
    /\ clock_log' = Append(clock_log, clock)
    /\ pc' = NextCell(pc)
    /\ UNCHANGED <<inputs, run, clock, files, data, split_vars,
                   baseline_accuracy, vectorizer_vars, nb_vars, rf_vars,
                   svm_vars, plot_vars, new_vars, text_vars>>

\* new_data.to_excel(path, index=False): writes the file, replacing one of
\* the same name
Export ==
    /\ pc = "export"
    /\ LET path == export_path(current_datetime)
       IN  files' =
              SelectSeq(files, LAMBDA f : f.path # path)
              \o <<[path |-> path, run |-> run, rows |-> new_data]>>
    /\ pc' = NextCell(pc)
    /\ UNCHANGED <<inputs, run, clock, clock_log, data, split_vars,
                   baseline_accuracy, vectorizer_vars, nb_vars, rf_vars,
                   svm_vars, plot_vars, new_vars, current_datetime, text_vars>>

\* the notebook is run again, in a new kernel, at a later reading of the clock
Restart ==
    /\ pc = "done"
    /\ run < MaxRuns
    /\ run' = run + 1
    /\ clock' \in ClockReadings
    /\ pc' = Cells[1]
    /\ data' = <<>>
    /\ train_index' = <<>> /\ test_index' = <<>>
    /\ X_train' = <<>> /\ X_test' = <<>> /\ y_train' = <<>> /\ y_test' = <<>>
    /\ baseline_accuracy' = NoScore
    /\ vectorizer' = NoModel
    /\ X_train_vectorized' = <<>> /\ X_test_vectorized' = <<>>
    /\ classifier' = NoModel /\ predictions' = <<>> /\ accuracy' = NoScore
    /\ rf_classifier' = NoModel /\ rf_predictions' = <<>>
    /\ rf_accuracy' = NoScore
    /\ svm_classifier' = NoModel /\ svm_predictions' = <<>>
    /\ svm_accuracy' = NoScore
    /\ reports' = <<>> /\ confusion_plots' = <<>> /\ roc_plots' = <<>>
    /\ new_data' = <<>> /\ new_data_vectorized' = <<>>
    /\ new_predictions_nb' = <<>> /\ new_predictions_rf' = <<>>
    /\ new_predictions_svm' = <<>>
    /\ current_datetime' = ""
    /\ UNCHANGED <<inputs, clock_log, files, text_vars>>

\* processed = preprocess_text(text)
ApplyPreprocess ==
    /\ pc = "text"
    /\ processed' = preprocess_text(text)
    /\ pc' = "text_done"
    /\ UNCHANGED <<inputs, outside, data, split_vars, baseline_accuracy,
                   vectorizer_vars, nb_vars, rf_vars, svm_vars, plot_vars,
                   new_vars, current_datetime, text>>

Next ==
    \/ Display
    \/ Load
    \/ Clean
    \/ Preprocess
    \/ Split
    \/ Baseline
    \/ Vectorize
    \/ TrainNB
    \/ TrainRF
    \/ TrainSVM
    \/ Reports
    \/ Confusion
    \/ MulticlassRoc
    \/ PredictNew
    \/ SpecialCases
    \/ AddPredictions
    \/ Timestamp
    \/ Export

NextRuns == Next \/ Restart

Spec == Init /\ [][Next]_vars

SpecAnyLabel == InitAnyLabel /\ [][Next]_vars

SpecRuns == InitRuns /\ [][NextRuns]_vars

SpecText == InitText /\ [][ApplyPreprocess]_vars

\* the run as far as the cleaning cell
NextClean == Display \/ Load \/ Clean

SpecClean == InitClean /\ [][NextClean]_vars

\* the run as far as the baseline cell
NextBaseline == Display \/ Load \/ Clean \/ Preprocess \/ Split \/ Baseline

SpecBaseline == InitBaseline /\ [][NextBaseline]_vars

\* ------------------------------------------------------------- the claims

\* a processed name the special-case rule names
IsSpecial(name) == name = "nan" \/ name = ""

\* the vector of one processed name under the fitted vocabulary
VectorOf(name) == transform(vectorizer.vocabulary_, <<name>>)[1]

\* C1: every predicted ethnicity written to the output, for each of the three
\* models, is one of Malay, Indian, Chinese, Others, whatever labels the
\* labelled sheet holds once the rows labelled False are gone.
C1_OutputIsOneOfFourClasses ==
    \A k \in 1..Len(files) : \A i \in 1..Len(files[k].rows) :
        /\ files[k].rows[i].Predicted_Ethnicity_NB \in Classes
        /\ files[k].rows[i].Predicted_Ethnicity_RF \in Classes
        /\ files[k].rows[i].Predicted_Ethnicity_SVM \in Classes

\* C2: once the special-case cell has run, every row whose processed name is
\* "nan" or empty has the prediction "Others" in each of the three arrays,
\* and that value is what the three Predicted_Ethnicity_* columns and the
\* exported rows hold.
C2_SpecialCasesAreOthers ==
    /\ pc \in {"add_predictions", "timestamp", "export", "done"} =>
          \A i \in 1..Len(new_data) :
              IsSpecial(new_data[i].processed_name) =>
                  /\ new_predictions_nb[i] = "Others"
                  /\ new_predictions_rf[i] = "Others"
                  /\ new_predictions_svm[i] = "Others"
    /\ pc \in {"timestamp", "export", "done"} =>
          \A i \in 1..Len(new_data) :
              IsSpecial(new_data[i].processed_name) =>
                  /\ new_data[i].Predicted_Ethnicity_NB = "Others"
                  /\ new_data[i].Predicted_Ethnicity_RF = "Others"
                  /\ new_data[i].Predicted_Ethnicity_SVM = "Others"
    /\ \A k \in 1..Len(files) : \A i \in 1..Len(files[k].rows) :
          IsSpecial(files[k].rows[i].processed_name) =>
              /\ files[k].rows[i].Predicted_Ethnicity_NB = "Others"
              /\ files[k].rows[i].Predicted_Ethnicity_RF = "Others"
              /\ files[k].rows[i].Predicted_Ethnicity_SVM = "Others"

\* A finished run with a row of each special kind, on models none of which
\* has "Others" among its classes: the value comes from the substitution.
C2_Witness ==
    /\ pc = "done"
    /\ \E i, j \in 1..Len(new_data) :
          /\ new_data[i].processed_name = "nan"
          /\ new_data[j].processed_name = ""
          /\ new_data[i].Predicted_Ethnicity_NB = "Others"
          /\ new_data[j].Predicted_Ethnicity_SVM = "Others"
    /\ "Others" \notin Range(classifier.classes_)

\* what the state shows of each stage having run
Normalized == Len(data) > 0 /\ "processed_name" \in DOMAIN data[1]

SplitDone == Len(train_index) > 0

VectorizerFitted ==
    vectorizer.kind = "CountVectorizer" /\ vectorizer.vocabulary_ # {}

Trained ==
    /\ classifier.kind = "MultinomialNB"
    /\ rf_classifier.kind = "RandomForestClassifier"
    /\ svm_classifier.kind = "SVC" /\ svm_classifier.n_samples > 0

Evaluated ==
    accuracy.total > 0 /\ rf_accuracy.total > 0 /\ svm_accuracy.total > 0

Predicted ==
    /\ Len(new_predictions_nb) > 0
    /\ Len(new_predictions_rf) > 0
    /\ Len(new_predictions_svm) > 0

Substituted ==
    \A i \in 1..Len(new_data) :
        IsSpecial(new_data[i].processed_name) =>
            /\ new_predictions_nb[i] = "Others"
            /\ new_predictions_rf[i] = "Others"
            /\ new_predictions_svm[i] = "Others"

Stamped == current_datetime # ""

Exported == \E k \in 1..Len(files) : files[k].run = run

\* no stage has run before the stages the claim lists ahead of it
StagesInOrder ==
    /\ Exported => Stamped /\ pc = "done"
    /\ Stamped => Predicted /\ Substituted
    /\ Predicted => Trained /\ Evaluated
    /\ (classifier.kind # "unset" \/ rf_classifier.kind # "unset"
          \/ svm_classifier.kind # "unset") => VectorizerFitted
    /\ accuracy.total > 0 => classifier.kind = "MultinomialNB"
    /\ rf_accuracy.total > 0 => rf_classifier.kind = "RandomForestClassifier"
    /\ svm_accuracy.total > 0 => svm_classifier.kind = "SVC"
    /\ vectorizer.kind # "unset" => SplitDone
    /\ SplitDone => Normalized
    /\ pc = "done" => Exported

\* a step runs the cell that follows the last one run, or ends the run
StepInOrder ==
    pc' # pc =>
        /\ pc \in Range(Cells)
        /\ \/ pc' = "error"
           \/ pc = Cells[Len(Cells)] /\ pc' = "done"
           \/ /\ pc' \in Range(Cells)
              /\ CellIndex(pc') = CellIndex(pc) + 1

TrainRowsOf == Range(train_index)

TestRowsOf == Range(test_index)

TrainLabels == {data[i].Ethnicity.v : i \in TrainRowsOf}

Matches(pred) ==
    Cardinality({k \in 1..Len(test_index) :
                    pred[k] = data[test_index[k]].Ethnicity.v})

RECURSIVE SeqSum(_)
SeqSum(s) == IF Len(s) = 0 THEN 0 ELSE s[1] + SeqSum(Tail(s))

MatrixSum(m) == SeqSum([a \in 1..Len(m) |-> SeqSum(m[a])])

ScoredOnTest(score, pred) ==
    /\ Len(pred) = Len(test_index)
    /\ score = [correct |-> Matches(pred), total |-> Len(test_index)]

ModelsUnchanged ==
    /\ pc # "train_nb" => classifier' = classifier
    /\ pc # "train_rf" => rf_classifier' = rf_classifier
    /\ pc # "train_svm" => svm_classifier' = svm_classifier
    /\ pc # "vectorize" => vectorizer' = vectorizer

\* the step that predicts the unlabelled sheet uses the model each training
\* cell fitted, on the sheet vectorized with the fitted vocabulary
PredictsWithFitted ==
    (pc = "predict_new" /\ pc' = "special_cases") =>
        /\ classifier.kind = "MultinomialNB"
        /\ rf_classifier.kind = "RandomForestClassifier"
        /\ svm_classifier.kind = "SVC"
        /\ Range(classifier.classes_) = TrainLabels
        /\ Range(rf_classifier.classes_) = TrainLabels
        /\ Range(svm_classifier.classes_) = TrainLabels
        /\ \A i \in 1..Len(new_data') :
              /\ new_data_vectorized'[i] = VectorOf(new_data'[i].processed_name)
              /\ new_predictions_nb'[i]
                    \in outcomes(classifier, new_data_vectorized'[i])
              /\ new_predictions_rf'[i]
                    \in outcomes(rf_classifier, new_data_vectorized'[i])
              /\ new_predictions_svm'[i]
                    \in outcomes(svm_classifier, new_data_vectorized'[i])

\* C5: each classifier is fitted in its own training cell and in no other
\* step; the plotting cells, the multiclass ROC cell among them, leave the
\* three models and the vectorizer as they were, and the predictions for the
\* unlabelled sheet are made by those same fitted models.
C5_ModelsFittedOnce == [][ModelsUnchanged /\ PredictsWithFitted]_vars

\* The unlabelled sheet has been predicted after the multiclass ROC cell drew
\* its curves, with the Naive Bayes model still bound to `classifier`.
C5_Witness ==
    /\ pc = "special_cases"
    /\ roc_plots # <<>>
    /\ classifier.kind = "MultinomialNB"
    /\ Len(new_predictions_nb) > 0

\* the value row i of the sheet must hold for a model: "Others" for a
\* special row, otherwise a class the model can return for the row's name
RowValueOk(value, model, name) ==
    IF IsSpecial(name) THEN value = "Others"
    ELSE value \in outcomes(model, VectorOf(name))

\* C6: the output has one row per row of the unlabelled sheet, in the
\* sheet's order; row i carries the name of input row i, and each
\* Predicted_Ethnicity_* column holds at row i the value of its own model's
\* array for that row: that model's prediction for that name, or "Others"
\* for a special row.  The exported rows are those rows.
C6_RowsAndColumnsAligned ==
    /\ pc \in {"timestamp", "export", "done"} =>
          /\ Len(new_data) = Len(new_xlsx)
          /\ \A i \in 1..Len(new_data) :
                /\ new_data[i].shipping_firstname = new_xlsx[i].shipping_firstname.v
                /\ new_data[i].processed_name =
                      preprocess_text(new_xlsx[i].shipping_firstname.v)
                /\ new_data[i].Predicted_Ethnicity_NB = new_predictions_nb[i]
                /\ new_data[i].Predicted_Ethnicity_RF = new_predictions_rf[i]
                /\ new_data[i].Predicted_Ethnicity_SVM = new_predictions_svm[i]
                /\ RowValueOk(new_data[i].Predicted_Ethnicity_NB, classifier,
                              new_data[i].processed_name)
                /\ RowValueOk(new_data[i].Predicted_Ethnicity_RF, rf_classifier,
                              new_data[i].processed_name)
                /\ RowValueOk(new_data[i].Predicted_Ethnicity_SVM, svm_classifier,
                              new_data[i].processed_name)
    /\ pc = "done" =>
          \E k \in 1..Len(files) : files[k].run = run /\ files[k].rows = new_data

\* A finished run on a sheet of two different names where the forest and
\* Naive Bayes disagree on a row.
C6_Witness ==
    /\ pc = "done"
    /\ Len(new_data) = 2
    /\ new_data[1].shipping_firstname # new_data[2].shipping_firstname
    /\ \E i \in 1..2 :
          new_data[i].Predicted_Ethnicity_NB # new_data[i].Predicted_Ethnicity_RF

\* a name written between asterisks
Encapsulated(name) ==
    /\ Len(name) >= 2
    /\ CharAt(name, 1) = "*"
    /\ CharAt(name, Len(name)) = "*"

\* C7: a name encapsulated by asterisks contributes no token to the processed
\* name, so its processed name is empty, and the three models' predictions
\* for its row are "Others".
C7_EncapsulatedNamesAreOthers ==
    pc = "done" =>
        \A i \in 1..Len(new_data) :
            Encapsulated(new_data[i].shipping_firstname) =>
                /\ new_data[i].processed_name = ""
                /\ new_data[i].Predicted_Ethnicity_NB = "Others"
                /\ new_data[i].Predicted_Ethnicity_RF = "Others"
                /\ new_data[i].Predicted_Ethnicity_SVM = "Others"

Distance(a, b) == IF a >= b THEN a - b ELSE b - a

\* the runs that have written their file
ExportedRuns == 1..(IF pc = "done" THEN run ELSE run - 1)

\* C8: the file name of a run carries the clock reading taken in that run,
\* after the predictions and before the export, to the second; two runs
\* whose readings are a second or more apart write files of different names,
\* so the later run leaves the earlier run's file in place.
C8_TimestampedOutput ==
    /\ Len(clock_log) = (IF pc \in {"export", "done"} THEN run ELSE run - 1)
    /\ pc \in {"export", "done"} =>
          /\ clock_log[run] = clock
          /\ current_datetime = strftime(clock_log[run])
          /\ Predicted /\ Substituted
    /\ \A r \in ExportedRuns :
          (\A q \in ExportedRuns :
               q > r => Distance(clock_log[q], clock_log[r]) >= TicksPerSecond)
          => \E k \in 1..Len(files) :
                /\ files[k].run = r
                /\ files[k].path = export_path(strftime(clock_log[r]))
    /\ \A j, k \in 1..Len(files) :
          (j # k /\ Distance(clock_log[files[j].run], clock_log[files[k].run])
                       >= TicksPerSecond)
          => files[j].path # files[k].path
    /\ \A j, k \in 1..Len(files) : j # k => files[j].path # files[k].path

\* Two finished runs, the second twelve hours after the first, and both
\* files in place.
C8_Witness ==
    /\ pc = "done" /\ run = 2
    /\ Len(files) = 2
    /\ Distance(clock_log[1], clock_log[2]) >= 12 * 3600 * TicksPerSecond

\* C9: in every multiclass ROC curve drawn, the column of the binarized test
\* labels and the column of the scores are columns of the class the curve
\* is labelled with, in whatever order the labels first appear in the sheet.
C9_RocColumnsAgree ==
    \A k \in 1..Len(roc_plots) :
        /\ roc_plots[k].truth = roc_plots[k].label
        /\ roc_plots[k].score = roc_plots[k].label

\* a token that is kept: letters only, and no stopword in any letter case
Qualifies(token) ==
    /\ token # ""
    /\ \A i \in 1..Len(token) : CharAt(token, i) \in Letters
    /\ \A w \in stop_words : lower(token) # w

Qualifying(tokens) == SelectSeq(tokens, Qualifies)

\* the words of a processed name
WordsOf(s) == IF s = "" THEN <<>> ELSE split(s)

NotFalseRows ==
    SelectSeq([i \in 1..Len(train_xlsx) |->
                  [ShippingName |-> train_xlsx[i].ShippingName.v,
                   Ethnicity |-> train_xlsx[i].Ethnicity]],
              LAMBDA r : r.Ethnicity # False)

\* C11: the cleaning cell removes the rows whose Ethnicity is False and
\* nothing else: after it no row has Ethnicity False, and every row whose
\* Ethnicity is anything else (a class name, a number such as 0, a missing
\* value) is kept, in order, with ShippingName as a string and Ethnicity
\* unchanged.
C11_CleanRemovesOnlyFalse ==
    pc = "preprocess" => data = NotFalseRows

\* the number of held-out rows that carry label c
HeldOutRowsWith(c) == Cardinality({i \in 1..Len(y_test) : y_test[i] = c})

\* the accuracy a predictor that answers c for every row has on the held-out
\* rows, as a count of rows
ConstantScore(c) == accuracy_score(target(y_test), [i \in 1..Len(y_test) |-> c.v]).correct

\* C12: the baseline accuracy is the number of held-out rows that carry the
\* most frequent of the held-out labels, over the number of held-out rows;
\* it is at least 1/k for k distinct held-out labels and at most 1, and no
\* predictor that answers one class for every held-out row scores higher.
C12_BaselineIsMajorityShare ==
    pc = "vectorize" =>
        LET labels == Range(y_test)
            n == Len(y_test)
            top == CHOOSE m \in {HeldOutRowsWith(l) : l \in labels} :
                      \A l \in labels : HeldOutRowsWith(l) <= m
        IN  /\ baseline_accuracy = [correct |-> top, total |-> n]
            /\ Cardinality(labels) * top >= n
            /\ top <= n
            /\ \A c \in (labels \ {NaN}) \cup {Str(l) : l \in Classes} :
                  ConstantScore(c) <= top
====
